---- MODULE Spec2Model ----
(***************************************************************************)
(* Model of two pieces of the storage abstraction layer:                   *)
(*   - GdriveBuilder (services/gdrive/builder.rs): setters, from_map,      *)
(*     build and the Debug rendering;                                      *)
(*   - VercelArtifactsBackend (services/vercel_artifacts/backend.rs):      *)
(*     info, read, write, the two request helpers and the Debug rendering. *)
(* Strings whose content matters (roots, tokens, paths) are sequences of   *)
(* one-character strings; Rust's Option and Result are tagged records.     *)
(***************************************************************************)
EXTENDS Naturals, Sequences, FiniteSets

VARIABLES
    builder,    \* the GdriveBuilder: access_token, root, http_client
    cfg,        \* the configuration map handed to from_map, if any
    calls,      \* the calls made on the builder so far, oldest first
    pre,        \* the builder as it was when the last build() was entered
    results,    \* what each build() returned, oldest first
    steps,      \* the steps the last build() ran, in order
    log,        \* the debug records emitted so far
    backend,    \* the VercelArtifactsBackend: access_token, client
    backend0,   \* the backend as constructed
    ops,        \* the operations in flight on the backend, one per caller
    infoSeen,   \* what the last info() call returned
    diag        \* the last Debug rendering of the backend

vars == <<builder, cfg, calls, pre, results, steps, log, backend, backend0, ops, infoSeen, diag>>
builderVars == <<builder, cfg, calls, pre, results, steps, log>>
backendVars == <<backend, backend0, ops, infoSeen, diag>>

\* ---------------------------------------------------------------- bounds

\* Longest sequence of calls made on one builder.
MaxCalls == 5
\* Number of callers using the backend concurrently.
MaxOps == 2

\* ---------------------------------------------------------------- values

None == [tag |-> "None"]
Some(x) == [tag |-> "Some", v |-> x]
Ok(x) == [tag |-> "Ok", v |-> x]
Err(e) == [tag |-> "Err", v |-> e]

Tokens == {<<"t", "1">>, <<"t", "2">>}
Roots == {<<>>, <<"a", "/", "b">>, <<"/", "a", "/", "b", "/">>}
OtherValues == {<<"x">>}
InjectedClient == "injected"
DefaultClient == "default"

Last(s) == s[Len(s)]

\* unwrap_or_default on Option<String>
UnwrapOrDefault(o) == IF o = None THEN <<>> ELSE o.v

\* ------------------------------------------------- collaborators of build

RECURSIVE Segments(_, _)
\* v.split('/').filter(|v| !v.is_empty()): the non-empty segments of s;
\* cur is the segment being read.
Segments(s, cur) ==
    IF s = <<>> THEN (IF cur = <<>> THEN <<>> ELSE <<cur>>)
    ELSE IF Head(s) = "/"
         THEN (IF cur = <<>> THEN <<>> ELSE <<cur>>) \o Segments(Tail(s), <<>>)
         ELSE Segments(Tail(s), Append(cur, Head(s)))

RECURSIVE Join(_)
\* join("/")
Join(segs) ==
    IF segs = <<>> THEN <<>>
    ELSE IF Len(segs) = 1 THEN segs[1]
    ELSE segs[1] \o <<"/">> \o Join(Tail(segs))

\* raw::normalize_root: the result begins and ends with a separator, an
\* empty root is the root scope "/".
normalize_root(v) ==
    LET j == Join(Segments(v, <<>>))
        a == IF j # <<>> /\ Head(j) = "/" THEN j ELSE <<"/">> \o j
    IN  IF Last(a) = "/" THEN a ELSE Append(a, "/")

\* Error::new(kind, message)
ErrorNew(kind, message) ==
    [kind |-> kind, message |-> message, operation |-> "", context |-> <<>>]

\* HttpClient::new(): the default transport client, or the error of a
\* failed construction.
HttpClientNew(ok) ==
    IF ok THEN Ok(DefaultClient)
    ELSE Err(ErrorNew("ConfigInvalid", "async client build failed"))

\* GdriveBackend::new(root, access_token, client)
GdriveBackendNew(root, access_token, client) ==
    [root |-> root, access_token |-> access_token, client |-> client]

\* ---------------------------------------------------------- GdriveBuilder

\* #[derive(Default)]
DefaultBuilder == [access_token |-> None, root |-> None, http_client |-> None]

\* GdriveBuilder::access_token
SetAccessToken(b, v) == [b EXCEPT !.access_token = Some(v)]

\* GdriveBuilder::root
SetRoot(b, v) == [b EXCEPT !.root = Some(v)]

\* GdriveBuilder::http_client
SetHttpClient(b, c) == [b EXCEPT !.http_client = Some(c)]

\* Debug for GdriveBuilder
DebugBuilder(b) == <<"Backend", <<"root", b.root>>>>

\* A from_map that reads the credential under the wrong key.
FromMapWrongKey(map) ==
    LET b0 == DefaultBuilder
        b1 == IF "root" \in DOMAIN map THEN SetRoot(b0, map["root"]) ELSE b0
    IN  IF "token" \in DOMAIN map THEN SetAccessToken(b1, map["token"]) ELSE b1

\* Builder::from_map
FromMap(map) ==
    LET b0 == DefaultBuilder
        b1 == IF "root" \in DOMAIN map THEN SetRoot(b0, map["root"]) ELSE b0
    IN  IF "access_token" \in DOMAIN map
        THEN SetAccessToken(b1, map["access_token"]) ELSE b1

\* A build() that falls back to an empty credential when none was set.
BuildFinishEmptyToken(b, root, client, done) ==
    [builder |-> b,
     log     |-> <<"backend use root", root>>,
     steps   |-> done \o <<"check access_token", "GdriveBackend::new">>,
     result  |-> Ok(GdriveBackendNew(root, UnwrapOrDefault(b.access_token), client))]

\* The outcome of build() once root and client are resolved.
BuildFinish(b, root, client, done) ==
    [builder |-> b,
     log     |-> <<"backend use root", root>>,
     steps   |-> done \o <<"check access_token">>
                 \o (IF b.access_token = None THEN <<>> ELSE <<"GdriveBackend::new">>),
     result  |-> IF b.access_token = None
                 THEN Err(ErrorNew("ConfigInvalid", "access_token not set"))
                 ELSE Ok(GdriveBackendNew(root, b.access_token.v, client))]

\* A build() that constructs a default client even when one was injected.
BuildAlwaysNewClient(b, newOk) ==
    LET root == normalize_root(UnwrapOrDefault(b.root))
        b1   == [b EXCEPT !.root = None, !.http_client = None]
        made == HttpClientNew(newOk)
    IN  IF made.tag = "Ok"
        THEN BuildFinish(b1, root, made.v, <<"normalize_root", "HttpClient::new">>)
        ELSE [builder |-> b1,
              log     |-> <<"backend use root", root>>,
              steps   |-> <<"normalize_root", "HttpClient::new">>,
              result  |-> Err([made.v EXCEPT
                                 !.operation = "Builder::build",
                                 !.context = Append(@, <<"service", "Scheme::Gdrive">>)])]

\* A build() that copies the root instead of taking it.
BuildKeepsRoot(b, newOk) ==
    LET root == normalize_root(UnwrapOrDefault(b.root))
        b1   == [b EXCEPT !.http_client = None]
        made == HttpClientNew(newOk)
    IN  IF b.http_client # None
        THEN BuildFinish(b1, root, b.http_client.v,
                         <<"normalize_root", "take http_client">>)
        ELSE IF made.tag = "Ok"
        THEN BuildFinish(b1, root, made.v,
                         <<"normalize_root", "HttpClient::new">>)
        ELSE [builder |-> b1,
              log     |-> <<"backend use root", root>>,
              steps   |-> <<"normalize_root", "HttpClient::new">>,
              result  |-> Err([made.v EXCEPT
                                 !.operation = "Builder::build",
                                 !.context = Append(@, <<"service", "Scheme::Gdrive">>)])]

\* Builder::build on builder b; newOk says whether HttpClient::new() would
\* succeed. Gives the builder afterwards, the result, the debug record and
\* the steps run.
Build(b, newOk) ==
    LET root == normalize_root(UnwrapOrDefault(b.root))
        b1   == [b EXCEPT !.root = None, !.http_client = None]
        made == HttpClientNew(newOk)
    IN  IF b.http_client # None
        THEN BuildFinish(b1, root, b.http_client.v,
                         <<"normalize_root", "take http_client">>)
        ELSE IF made.tag = "Ok"
        THEN BuildFinish(b1, root, made.v,
                         <<"normalize_root", "HttpClient::new">>)
        ELSE [builder |-> b1,
              log     |-> <<"backend use root", root>>,
              steps   |-> <<"normalize_root", "HttpClient::new">>,
              result  |-> Err([made.v EXCEPT
                                 !.operation = "Builder::build",
                                 !.context = Append(@, <<"service", "Scheme::Gdrive">>)])]

\* ------------------------------------------------------ builder: actions

Maps ==
    UNION {[K -> Roots \cup Tokens \cup OtherValues] : K \in SUBSET {"root", "access_token", "region"}}

ConfigMaps ==
    {m \in Maps :
        /\ "root" \in DOMAIN m => m["root"] \in Roots
        /\ "access_token" \in DOMAIN m => m["access_token"] \in Tokens
        /\ "region" \in DOMAIN m => m["region"] \in OtherValues}

BuilderInit ==
    /\ builder = None
    /\ cfg = None
    /\ calls = <<>>
    /\ pre = None
    /\ results = <<>>
    /\ steps = <<>>
    /\ log = <<>>

\* GdriveBuilder::default()
CallDefault ==
    /\ calls = <<>>
    /\ builder' = Some(DefaultBuilder)
    /\ calls' = <<"default">>
    /\ UNCHANGED <<cfg, pre, results, steps, log, backendVars>>

CallFromMap ==
    /\ calls = <<>>
    /\ \E m \in ConfigMaps :
        /\ builder' = Some(FromMap(m))
        /\ cfg' = Some(m)
    /\ calls' = <<"from_map">>
    /\ UNCHANGED <<pre, results, steps, log, backendVars>>

CallAccessToken ==
    /\ calls # <<>> /\ Len(calls) < MaxCalls
    /\ \E t \in Tokens : builder' = Some(SetAccessToken(builder.v, t))
    /\ calls' = Append(calls, "access_token")
    /\ UNCHANGED <<cfg, pre, results, steps, log, backendVars>>

CallRoot ==
    /\ calls # <<>> /\ Len(calls) < MaxCalls
    /\ \E r \in Roots : builder' = Some(SetRoot(builder.v, r))
    /\ calls' = Append(calls, "root")
    /\ UNCHANGED <<cfg, pre, results, steps, log, backendVars>>

CallHttpClient ==
    /\ calls # <<>> /\ Len(calls) < MaxCalls
    /\ builder' = Some(SetHttpClient(builder.v, InjectedClient))
    /\ calls' = Append(calls, "http_client")
    /\ UNCHANGED <<cfg, pre, results, steps, log, backendVars>>

CallBuild ==
    /\ calls # <<>> /\ Len(calls) < MaxCalls
    /\ \E newOk \in BOOLEAN :
        LET out == Build(builder.v, newOk) IN
        /\ builder' = Some(out.builder)
        /\ results' = Append(results, out.result)
        /\ steps' = out.steps
        /\ log' = Append(log, out.log)
    /\ pre' = builder
    /\ calls' = Append(calls, "build")
    /\ UNCHANGED <<cfg, backendVars>>

BuilderNext ==
    \/ CallDefault
    \/ CallFromMap
    \/ CallAccessToken
    \/ CallRoot
    \/ CallHttpClient
    \/ CallBuild

\* ------------------------------------------- VercelArtifactsBackend: values

Paths == {<<"a", "b">>, <<"a", " ", "b">>}
ContentLengths == {None, Some(<<"1", "1">>)}
Statuses == {200, 206, 403, 404, 500}
SuccessStatuses == {200, 206}
OtherOps == {"delete", "list", "rename", "copy"}

\* What the transport answers to one send: a transport failure, or a
\* response with a status, whose headers parse or not and whose body can
\* be read or not.
Responses ==
    {[ok |-> FALSE]}
    \cup {[ok |-> TRUE, status |-> st, headersOk |-> h, bodyOk |-> TRUE] :
            st \in SuccessStatuses, h \in BOOLEAN}
    \cup {[ok |-> TRUE, status |-> st, headersOk |-> TRUE, bodyOk |-> b] :
            st \in Statuses \ SuccessStatuses, b \in BOOLEAN}

\* An operation's error: its kind and whether it is flagged transient.
OpError(kind, transient) == [kind |-> kind, transient |-> transient]

\* http: a URI holds no space; a header value holds no line break.
ValidUri(url) == \A i \in 1..Len(url) : url[i] # " "
ValidHeaderValue(v) == \A i \in 1..Len(v) : v[i] # "\n"

\* http::request::Builder::body: the request, or the error met while the
\* builder was filled, mapped by new_request_build_error.
RequestBody(method, url, authorization, content_length) ==
    IF /\ ValidUri(url)
       /\ ValidHeaderValue(authorization)
       /\ content_length # None => ValidHeaderValue(content_length.v)
    THEN Ok([method |-> method, url |-> url, authorization |-> authorization,
             content_length |-> content_length])
    ELSE Err(OpError("Unexpected", FALSE))

\* Capability::default(): nothing is supported.
DefaultCapability ==
    [read |-> FALSE, write |-> FALSE, delete |-> FALSE, list |-> FALSE,
     rename |-> FALSE, copy |-> FALSE]

\* error::parse_error: the remote status mapped onto the error taxonomy;
\* reading the body for the diagnostic may itself fail.
parse_error(resp) ==
    IF ~resp.bodyOk THEN Err(OpError("Unexpected", TRUE))
    ELSE Ok(CASE resp.status = 404 -> OpError("NotFound", FALSE)
              [] resp.status = 403 -> OpError("PermissionDenied", FALSE)
              [] resp.status = 500 -> OpError("Unexpected", TRUE)
              [] OTHER -> OpError("Unexpected", FALSE))

\* parse_into_metadata(path, headers)
parse_into_metadata(path, resp) ==
    IF resp.headersOk THEN Ok([path |-> path, status |-> resp.status])
    ELSE Err(OpError("Unexpected", FALSE))

\* A default method of the Accessor trait, which the backend does not
\* override.
DefaultAccessorOp(name) == Err(OpError("Unsupported", FALSE))

\* ------------------------------------------------- VercelArtifactsBackend

\* An info() that advertises delete as well.
InfoWithDelete(b) ==
    [scheme |-> "Scheme::VercelArtifacts",
     capability |-> [DefaultCapability EXCEPT !.read = TRUE, !.write = TRUE,
                                              !.delete = TRUE]]

\* Accessor::info
Info(b) ==
    [scheme |-> "Scheme::VercelArtifacts",
     capability |-> [DefaultCapability EXCEPT !.read = TRUE, !.write = TRUE]]

\* Debug for VercelArtifactsBackend
DebugBackend(b) == <<"VercelArtifactsBackend", <<"access_token", b.access_token>>>>

ArtifactUrl(hash) == <<"https://api.vercel.com/v8/artifacts/">> \o hash
Bearer(token) == <<"Bearer ">> \o token

\* vercel_artifacts_get up to the send: the request to send, or the error.
vercel_artifacts_get(b, hash) ==
    RequestBody("GET", ArtifactUrl(hash), Bearer(b.access_token), None)

\* vercel_artifacts_put up to the send: the request to send, or the error.
vercel_artifacts_put(b, hash, size) ==
    RequestBody("PUT", ArtifactUrl(hash), Bearer(b.access_token), Some(size))

\* read() from the transport's answer on: the match on the status.
ReadResult(path, resp) ==
    IF ~resp.ok THEN Err(OpError("Unexpected", TRUE))
    ELSE IF resp.status \in SuccessStatuses
    THEN (LET meta == parse_into_metadata(path, resp) IN
          IF meta.tag = "Ok" THEN Ok([meta |-> meta.v, reader |-> "body"]) ELSE meta)
    ELSE (LET e == parse_error(resp) IN IF e.tag = "Ok" THEN Err(e.v) ELSE e)

\* write(): the check of the content length and the writer made.
WriteResult(b, path, content_length) ==
    IF content_length = None
    THEN Err(OpError("Unsupported", FALSE))
    ELSE Ok([backend |-> b, path |-> path, content_length |-> content_length])

\* The writer's handling of the answer to its PUT.
WriterResult(resp) ==
    IF ~resp.ok THEN Err(OpError("Unexpected", TRUE))
    ELSE IF resp.status = 200 THEN Ok("written")
    ELSE (LET e == parse_error(resp) IN IF e.tag = "Ok" THEN Err(e.v) ELSE e)

\* ------------------------------------------------------ backend: actions

IdleOp ==
    [pc |-> "Idle", kind |-> "none", path |-> <<>>, content_length |-> None,
     sends |-> 0, req |-> None, resp |-> None, outcome |-> None, trail |-> <<>>]

Terminal == {"Succeeded", "Failed"}

\* The operation moves to pc, remembering the way it came.
Move(op, pc) == [op EXCEPT !.pc = pc, !.trail = Append(@, pc)]

\* The operation ends with the result r.
Finish(op, r) ==
    [Move(op, IF r.tag = "Ok" THEN "Succeeded" ELSE "Failed") EXCEPT !.outcome = Some(r)]

\* client.send(req): the request leaves, the operation awaits the answer.
Send(op, req) ==
    [Move(op, "RemoteCallInFlight") EXCEPT !.sends = @ + 1, !.req = Some(req)]

BackendInit ==
    /\ backend \in {[access_token |-> t, client |-> InjectedClient] : t \in Tokens}
    /\ backend0 = backend
    /\ ops = [o \in 1..MaxOps |-> IdleOp]
    /\ infoSeen = None
    /\ diag = None

\* A caller calls read, write or an operation the backend does not
\* implement; the future is created and not yet polled.
Call(o) ==
    /\ ops[o].pc = "Idle"
    /\ \E kind \in {"read", "write"} \cup OtherOps, path \in Paths, cl \in ContentLengths :
        /\ kind # "write" => cl = None
        /\ kind \in OtherOps => path = <<"a", "b">>
        /\ ops' = [ops EXCEPT ![o] =
                     [Move(IdleOp, "Requested") EXCEPT
                        !.kind = kind, !.path = path, !.content_length = cl]]
    /\ UNCHANGED <<backend, backend0, infoSeen, diag, builderVars>>

\* A read that sends again when the remote answers 500.
ReadResponseRetrying(o) ==
    /\ ops[o].pc = "RemoteCallInFlight" /\ ops[o].kind = "read"
    /\ \E resp \in Responses :
        ops' = [ops EXCEPT ![o] =
                  IF resp.ok /\ resp.status = 500 /\ ops[o].sends < 2
                  THEN [@ EXCEPT !.sends = @ + 1]
                  ELSE Finish([@ EXCEPT !.resp = Some(resp)], ReadResult(@.path, resp))]
    /\ UNCHANGED <<backend, backend0, infoSeen, diag, builderVars>>

\* read(), first part: vercel_artifacts_get builds the request and sends it.
ReadSend(o) ==
    /\ ops[o].pc = "Requested" /\ ops[o].kind = "read"
    /\ LET req == vercel_artifacts_get(backend, ops[o].path) IN
       ops' = [ops EXCEPT ![o] = IF req.tag = "Ok" THEN Send(@, req.v) ELSE Finish(@, req)]
    /\ UNCHANGED <<backend, backend0, infoSeen, diag, builderVars>>

\* read(), second part: the transport answers and the status is matched.
ReadResponse(o) ==
    /\ ops[o].pc = "RemoteCallInFlight" /\ ops[o].kind = "read"
    /\ \E resp \in Responses :
        ops' = [ops EXCEPT ![o] =
                  Finish([@ EXCEPT !.resp = Some(resp)], ReadResult(@.path, resp))]
    /\ UNCHANGED <<backend, backend0, infoSeen, diag, builderVars>>

\* A write that hands out a writer whether or not a length was given.
WriteNoLengthCheck(o) ==
    /\ ops[o].pc = "Requested" /\ ops[o].kind = "write"
    /\ ops' = [ops EXCEPT ![o] =
                 [Move(@, "WriterOpen") EXCEPT
                    !.outcome = Some(Ok([backend |-> backend, path |-> ops[o].path,
                                         content_length |-> ops[o].content_length]))]]
    /\ UNCHANGED <<backend, backend0, infoSeen, diag, builderVars>>

\* A write that moves the credential into the writer instead of cloning
\* the backend.
WriteTakesToken(o) ==
    /\ ops[o].pc = "Requested" /\ ops[o].kind = "write"
    /\ LET r == WriteResult(backend, ops[o].path, ops[o].content_length) IN
       /\ ops' = [ops EXCEPT ![o] =
                    IF r.tag = "Ok" THEN [Move(@, "WriterOpen") EXCEPT !.outcome = Some(r)]
                    ELSE Finish(@, r)]
       /\ backend' = IF r.tag = "Ok" THEN [backend EXCEPT !.access_token = <<>>]
                     ELSE backend
    /\ UNCHANGED <<backend0, infoSeen, diag, builderVars>>

\* write(): fails without a content length, else returns a writer that
\* holds a clone of the backend.
Write(o) ==
    /\ ops[o].pc = "Requested" /\ ops[o].kind = "write"
    /\ LET r == WriteResult(backend, ops[o].path, ops[o].content_length) IN
       ops' = [ops EXCEPT ![o] =
                 IF r.tag = "Ok" THEN [Move(@, "WriterOpen") EXCEPT !.outcome = Some(r)]
                 ELSE Finish(@, r)]
    /\ UNCHANGED <<backend, backend0, infoSeen, diag, builderVars>>

\* The writer is given its bytes: vercel_artifacts_put builds the PUT with
\* the declared length and sends it.
WriterSend(o) ==
    /\ ops[o].pc = "WriterOpen"
    /\ LET w   == ops[o].outcome.v.v
           req == vercel_artifacts_put(w.backend, w.path, w.content_length.v)
       IN  ops' = [ops EXCEPT ![o] = IF req.tag = "Ok" THEN Send(@, req.v) ELSE Finish(@, req)]
    /\ UNCHANGED <<backend, backend0, infoSeen, diag, builderVars>>

\* The transport answers the writer's PUT.
WriterResponse(o) ==
    /\ ops[o].pc = "RemoteCallInFlight" /\ ops[o].kind = "write"
    /\ \E resp \in Responses :
        ops' = [ops EXCEPT ![o] = Finish([@ EXCEPT !.resp = Some(resp)], WriterResult(resp))]
    /\ UNCHANGED <<backend, backend0, infoSeen, diag, builderVars>>

\* delete, list, rename, copy: the trait's default method answers.
Unimplemented(o) ==
    /\ ops[o].pc = "Requested" /\ ops[o].kind \in OtherOps
    /\ ops' = [ops EXCEPT ![o] = Finish(@, DefaultAccessorOp(@.kind))]
    /\ UNCHANGED <<backend, backend0, infoSeen, diag, builderVars>>

\* The caller drops the future, the reader or the writer before the
\* operation has ended.
Abandon(o) ==
    /\ ops[o].pc \in {"Requested", "RemoteCallInFlight", "WriterOpen"}
    /\ ops' = [ops EXCEPT ![o] = [IdleOp EXCEPT !.pc = "Abandoned"]]
    /\ UNCHANGED <<backend, backend0, infoSeen, diag, builderVars>>

\* The caller has its result and is free to call again.
Return(o) ==
    /\ ops[o].pc \in Terminal \cup {"Abandoned"}
    /\ ops' = [ops EXCEPT ![o] = IdleOp]
    /\ UNCHANGED <<backend, backend0, infoSeen, diag, builderVars>>

\* A caller calls info().
CallInfo ==
    /\ infoSeen' = Some(Info(backend))
    /\ infoSeen' # infoSeen
    /\ UNCHANGED <<backend, backend0, ops, diag, builderVars>>

\* A caller formats the backend with {:?}.
FmtDebug ==
    /\ diag' = Some(DebugBackend(backend))
    /\ diag' # diag
    /\ UNCHANGED <<backend, backend0, ops, infoSeen, builderVars>>

BackendNext ==
    \/ \E o \in 1..MaxOps :
        \/ Call(o)
        \/ ReadSend(o)
        \/ ReadResponse(o)
        \/ Write(o)
        \/ WriterSend(o)
        \/ WriterResponse(o)
        \/ Unimplemented(o)
        \/ Abandon(o)
        \/ Return(o)
    \/ CallInfo
    \/ FmtDebug

Init == BuilderInit /\ BackendInit

BuilderSpec == Init /\ [][BuilderNext]_vars

BackendSpec == Init /\ [][BackendNext]_vars

\* ------------------------------------------------------- builder: claims

LastIsBuild == calls # <<>> /\ Last(calls) = "build"
LastResult == Last(results)
IsErr(r, kind) == r.tag = "Err" /\ r.v.kind = kind
\* The number of build() calls among the first i calls.
BuildNo(i) == Cardinality({k \in 1..i : calls[k] = "build"})
NoTokenSetter == \A i \in 1..Len(calls) : calls[i] # "access_token"

\* C1: a builder made by from_map from a map without the "access_token"
\* key, on which access_token() was never called, fails every build() with
\* a ConfigInvalid error and returns no backend, whatever "root", unknown
\* keys or an injected client it has.
C1_NoCredentialKeyFails ==
    (/\ cfg # None
     /\ "access_token" \notin DOMAIN cfg.v
     /\ NoTokenSetter
     /\ LastIsBuild)
    => IsErr(LastResult, "ConfigInvalid")

C1_Witness ==
    /\ cfg # None
    /\ DOMAIN cfg.v = {"root", "region"}
    /\ calls = <<"from_map", "http_client", "build">>
    /\ pre.v.http_client = Some(InjectedClient)
    /\ IsErr(LastResult, "ConfigInvalid")
    /\ LastResult.v.message = "access_token not set"

\* C2 (as claimed): after any build() every optional field of the builder
\* is empty, and a build() that directly follows a build() returns no
\* backend.
C2_BuildEmptiesAllFields ==
    /\ LastIsBuild => builder.v = DefaultBuilder
    /\ \A i \in 1..Len(calls) :
         (i > 1 /\ calls[i] = "build" /\ calls[i - 1] = "build")
         => results[BuildNo(i)].tag = "Err"

\* C7: right after from_map(map) the builder is the default builder with
\* access_token(v) applied iff "access_token" is a key and root(v) applied
\* iff "root" is a key; every map that agrees on these two keys gives the
\* same builder; the transport client is unset.
C7_FromMapIsSetterSequence ==
    calls = <<"from_map">> =>
        LET m  == cfg.v
            b1 == IF "access_token" \in DOMAIN m
                  THEN SetAccessToken(DefaultBuilder, m["access_token"])
                  ELSE DefaultBuilder
            b2 == IF "root" \in DOMAIN m THEN SetRoot(b1, m["root"]) ELSE b1
        IN  /\ builder.v = b2
            /\ builder.v.http_client = None
            /\ ("access_token" \in DOMAIN m <=> builder.v.access_token # None)
            /\ ("root" \in DOMAIN m <=> builder.v.root # None)
            /\ \A m2 \in ConfigMaps :
                 (\A k \in {"root", "access_token"} :
                     /\ k \in DOMAIN m2 <=> k \in DOMAIN m
                     /\ k \in DOMAIN m => m2[k] = m[k])
                 => FromMap(m2) = builder.v

C7_Witness ==
    /\ calls = <<"from_map">>
    /\ DOMAIN cfg.v = {"root", "access_token", "region"}
    /\ builder.v.access_token = Some(cfg.v["access_token"])
    /\ builder.v.root = Some(<<"a", "/", "b">>)

\* build() stopped at transport resolution: HttpClient::new() failed.
ClientConstructionFailed == LastIsBuild /\ steps = <<"normalize_root", "HttpClient::new">>

\* C9: build() normalizes the root, then resolves the transport client,
\* then checks the credential, then constructs the backend; an injected
\* client is used as is and HttpClient::new() is not called; with no
\* injected client and a failing HttpClient::new(), build() returns a
\* ConfigInvalid error with operation "Builder::build" and the service in
\* its context, whether or not a credential is set, and no backend.
C9_BuildOrderAndTransport ==
    LastIsBuild =>
        /\ steps \in {<<"normalize_root", "take http_client", "check access_token">>,
                      <<"normalize_root", "take http_client", "check access_token",
                        "GdriveBackend::new">>,
                      <<"normalize_root", "HttpClient::new">>,
                      <<"normalize_root", "HttpClient::new", "check access_token">>,
                      <<"normalize_root", "HttpClient::new", "check access_token",
                        "GdriveBackend::new">>}
        /\ Last(log) = <<"backend use root", normalize_root(UnwrapOrDefault(pre.v.root))>>
        /\ pre.v.http_client # None =>
             /\ steps[2] = "take http_client"
             /\ LastResult.tag = "Ok" => LastResult.v.client = pre.v.http_client.v
        /\ pre.v.http_client = None => steps[2] = "HttpClient::new"
        /\ ClientConstructionFailed =>
             /\ IsErr(LastResult, "ConfigInvalid")
             /\ LastResult.v.operation = "Builder::build"
             /\ LastResult.v.context = <<<<"service", "Scheme::Gdrive">>>>
        /\ LastResult.tag = "Ok" <=> Last(steps) = "GdriveBackend::new"
        /\ LastResult.tag = "Ok" =>
             /\ pre.v.access_token = Some(LastResult.v.access_token)
             /\ LastResult.v.root = normalize_root(UnwrapOrDefault(pre.v.root))

C9_Witness ==
    /\ ClientConstructionFailed
    /\ pre.v.http_client = None
    /\ pre.v.access_token # None
    /\ IsErr(LastResult, "ConfigInvalid")
    /\ LastResult.v.operation = "Builder::build"

\* The i-th call is a build() that failed for the missing credential, the
\* next call is access_token(v) and the one after is build() again.
RetryAfterMissingCredential(i) ==
    /\ i + 2 <= Len(calls)
    /\ calls[i] = "build" /\ calls[i + 1] = "access_token" /\ calls[i + 2] = "build"
    /\ results[BuildNo(i)].tag = "Err"
    /\ results[BuildNo(i)].v.message = "access_token not set"

\* C10: a build() that fails for the missing credential leaves root and
\* transport client empty; access_token(v) followed by build() on the same
\* builder then gives, when it gives a backend, one scoped to "/" with the
\* default transport client, and otherwise fails only because the default
\* client could not be constructed.
C10_FailedBuildStillEmpties ==
    /\ (LastIsBuild /\ LastResult.tag = "Err"
        /\ LastResult.v.message = "access_token not set")
       => (builder.v.root = None /\ builder.v.http_client = None)
    /\ \A i \in 1..Len(calls) :
         RetryAfterMissingCredential(i) =>
            LET r == results[BuildNo(i + 2)] IN
            /\ r.tag = "Ok" => (r.v.root = <<"/">> /\ r.v.client = DefaultClient)
            /\ r.tag = "Err" => r.v.operation = "Builder::build"

C10_Witness ==
    /\ calls = <<"from_map", "http_client", "build", "access_token", "build">>
    /\ cfg # None /\ "root" \in DOMAIN cfg.v /\ cfg.v["root"] = <<"a", "/", "b">>
    /\ RetryAfterMissingCredential(3)
    /\ LastResult.tag = "Ok"
    /\ LastResult.v.root = <<"/">>
    /\ LastResult.v.client = DefaultClient

\* ------------------------------------------------------- backend: claims

OpIds == 1..MaxOps
IsFailed(op, kind) ==
    op.pc = "Failed" /\ op.outcome.v.tag = "Err" /\ op.outcome.v.v.kind = kind

\* C3: a write whose arguments carry no content length ends Failed with an
\* Unsupported error straight from Requested: no writer is returned and
\* nothing is sent, whatever the path and whatever else runs.
C3_WriteWithoutLengthUnsupported ==
    \A o \in OpIds :
        (ops[o].kind = "write" /\ ops[o].content_length = None
         /\ ops[o].pc \notin {"Requested", "Abandoned"})
        => /\ IsFailed(ops[o], "Unsupported")
           /\ ops[o].trail = <<"Requested", "Failed">>
           /\ ops[o].sends = 0
           /\ ops[o].req = None

C3_Witness ==
    \E o, p \in OpIds :
        /\ ops[o].kind = "write" /\ ops[o].content_length = None
        /\ ops[o].path = <<"a", " ", "b">>
        /\ IsFailed(ops[o], "Unsupported") /\ ops[o].sends = 0
        /\ ops[p].kind = "read" /\ ops[p].pc = "RemoteCallInFlight"

\* C4 (as claimed): a read that has ended went Requested,
\* RemoteCallInFlight, Succeeded or Failed, and made exactly one send.
C4_ReadSendsExactlyOnce ==
    \A o \in OpIds :
        (ops[o].kind = "read" /\ ops[o].pc \in Terminal)
        => /\ ops[o].sends = 1
           /\ ops[o].trail \in {<<"Requested", "RemoteCallInFlight", "Succeeded">>,
                                <<"Requested", "RemoteCallInFlight", "Failed">>}

\* C4 (amended): a read makes at most one send. It makes exactly one and
\* goes Requested, RemoteCallInFlight, Succeeded or Failed whenever its
\* request can be built; when the request cannot be built (the path makes
\* no valid URI) it goes from Requested to Failed with nothing sent. A 404
\* whose body can be read ends the read Failed with NotFound after one send.
C4_ReadSendsAtMostOnce ==
    \A o \in OpIds :
        ops[o].kind = "read" /\ ops[o].pc # "Abandoned" =>
            /\ ops[o].sends <= 1
            /\ ops[o].pc = "Requested" => ops[o].sends = 0
            /\ ops[o].pc = "RemoteCallInFlight" =>
                 ops[o].sends = 1 /\ ops[o].trail = <<"Requested", "RemoteCallInFlight">>
            /\ ops[o].pc \in Terminal =>
                 /\ ops[o].outcome.v.tag = (IF ops[o].pc = "Succeeded" THEN "Ok" ELSE "Err")
                 /\ IF ValidUri(ArtifactUrl(ops[o].path))
                    THEN /\ ops[o].sends = 1
                         /\ ops[o].trail = <<"Requested", "RemoteCallInFlight", ops[o].pc>>
                         /\ ops[o].resp # None
                    ELSE /\ ops[o].sends = 0
                         /\ ops[o].trail = <<"Requested", "Failed">>
                         /\ ops[o].resp = None
                 /\ (ops[o].resp # None /\ ops[o].resp.v.ok /\ ops[o].resp.v.status = 404
                     /\ ops[o].resp.v.bodyOk)
                    => IsFailed(ops[o], "NotFound") /\ ops[o].sends = 1

C4_Witness ==
    \E o, p \in OpIds :
        /\ ops[o].kind = "read" /\ IsFailed(ops[o], "NotFound")
        /\ ops[o].resp.v.status = 404 /\ ops[o].sends = 1
        /\ ops[p].kind = "read" /\ ops[p].pc = "Failed" /\ ops[p].sends = 0

\* What an operation that has ended must have returned, from its own
\* arguments and the answer to its own request alone.
OwnOutcome(op) ==
    CASE op.kind = "read" /\ op.resp = None -> Err(OpError("Unexpected", FALSE))
      [] op.kind = "read" /\ op.resp # None ->
            LET r == op.resp.v IN
            IF ~r.ok THEN Err(OpError("Unexpected", TRUE))
            ELSE IF r.status \in {200, 206} /\ r.headersOk
                 THEN Ok([meta |-> [path |-> op.path, status |-> r.status], reader |-> "body"])
            ELSE IF r.status \in {200, 206} THEN Err(OpError("Unexpected", FALSE))
            ELSE IF ~r.bodyOk THEN Err(OpError("Unexpected", TRUE))
            ELSE IF r.status = 404 THEN Err(OpError("NotFound", FALSE))
            ELSE IF r.status = 403 THEN Err(OpError("PermissionDenied", FALSE))
            ELSE Err(OpError("Unexpected", r.status = 500))
      [] op.kind = "write" /\ op.content_length = None -> Err(OpError("Unsupported", FALSE))
      [] op.kind = "write" /\ op.content_length # None /\ op.resp = None ->
            Err(OpError("Unexpected", FALSE))
      [] op.kind = "write" /\ op.content_length # None /\ op.resp # None ->
            LET r == op.resp.v IN
            IF ~r.ok THEN Err(OpError("Unexpected", TRUE))
            ELSE IF r.status = 200 THEN Ok("written")
            ELSE IF ~r.bodyOk THEN Err(OpError("Unexpected", TRUE))
            ELSE IF r.status = 404 THEN Err(OpError("NotFound", FALSE))
            ELSE IF r.status = 403 THEN Err(OpError("PermissionDenied", FALSE))
            ELSE Err(OpError("Unexpected", r.status = 500))
      [] OTHER -> Err(OpError("Unsupported", FALSE))

\* C5: under every interleaving of reads, writes, failures and abandoned
\* operations the backend keeps the credential and the transport handle it
\* was constructed with, every writer and every request carries that same
\* credential, and the result of an operation that has ended is determined
\* by its own arguments and the answer to its own request.
C5_BackendUnchangedOpsIndependent ==
    /\ backend = backend0
    /\ \A o \in OpIds :
        /\ ops[o].pc \in Terminal => ops[o].outcome = Some(OwnOutcome(ops[o]))
        /\ ops[o].pc = "WriterOpen" => ops[o].outcome.v.v.backend = backend0
        /\ ops[o].req # None => ops[o].req.v.authorization = Bearer(backend0.access_token)

C5_Witness ==
    \E o, p \in OpIds :
        /\ ops[o].kind = "write" /\ ops[o].pc = "Failed"
        /\ ops[o].resp # None /\ ops[o].resp.v.ok /\ ops[o].resp.v.status = 500
        /\ ops[o].outcome = Some(Err(OpError("Unexpected", TRUE)))
        /\ ops[p].kind = "read" /\ ops[p].pc = "Succeeded"
        /\ backend = backend0

\* C6: info() always returns the descriptor with read and write true and
\* delete, list, rename and copy false, and changes nothing; an operation
\* the descriptor does not advertise is never sent and ends Failed with
\* Unsupported.
C6_InfoFixedUnadvertisedUnsupported ==
    LET cap == Info(backend).capability IN
    /\ cap = [read |-> TRUE, write |-> TRUE, delete |-> FALSE, list |-> FALSE,
              rename |-> FALSE, copy |-> FALSE]
    /\ infoSeen # None => infoSeen.v = Info(backend0)
    /\ backend = backend0
    /\ \A o \in OpIds :
        (ops[o].kind \in DOMAIN cap /\ ~cap[ops[o].kind]) =>
            /\ ops[o].pc \in {"Requested", "Failed", "Abandoned"}
            /\ ops[o].sends = 0
            /\ ops[o].pc = "Failed" => IsFailed(ops[o], "Unsupported")

C6_Witness ==
    /\ infoSeen # None
    /\ \E o, p \in OpIds :
        /\ ops[o].kind = "delete" /\ IsFailed(ops[o], "Unsupported") /\ ops[o].sends = 0
        /\ ops[p].kind = "read" /\ ops[p].pc = "Succeeded"

\* C8 (as claimed): what the builder and the backend write to diagnostics
\* is the same whatever the access token: the Debug rendering of the
\* builder, the debug record of build() and the Debug rendering of the
\* backend do not change when the token alone is replaced.
C8_NoCredentialInDiagnostics ==
    \A t \in Tokens :
        /\ builder # None =>
             /\ DebugBuilder(SetAccessToken(builder.v, t)) = DebugBuilder(builder.v)
             /\ Build(SetAccessToken(builder.v, t), TRUE).log = Build(builder.v, TRUE).log
        /\ diag # None =>
             diag.v = DebugBackend([backend EXCEPT !.access_token = t])

====
